---- MODULE Spec2Model ----
(***************************************************************************)
(* Model of geodata/rasterdata.py (class RasterData): the block grid of an *)
(* image, block-indexed reads and writes, the block iterator, clone_empty  *)
(* and the resolution of a bounding box into a pixel window.               *)
(*                                                                         *)
(* Projected coordinates and the pixel size are floats in the source.  The *)
(* model counts them in half coordinate units (the integer 5 stands for    *)
(* 2.5, a pixel size of 2 stands for 1.0).  Such values and the sums,      *)
(* differences and products the code forms of them are exact in binary     *)
(* floating point, and the quotient of two small integers is never within  *)
(* rounding distance of an integer it does not equal, so int(a / b) of the *)
(* source is the truncated integer quotient computed here.                 *)
(***************************************************************************)
EXTENDS Integers, Sequences, FiniteSets, TLC

VARIABLES
    rows,            \* self.rows
    cols,            \* self.cols
    block_size,      \* self.block_size, <<width, height>> as GetBlockSize gives it
    origem,          \* self.origem, <<x, y>> of the top-left corner
    pixel_size,      \* self.pixel_size
    write_enabled,   \* self.write_enabled
    access,          \* access mode of self.gdal_dataset: "GA_Update" or "GA_ReadOnly"
    _block_list,     \* the lazy cache behind block_list; <<>> stands for None
    _block_indices,  \* the lazy cache behind block_indices; <<>> stands for None
    proj,            \* self.proj, the WKT of the image's reference system
    data,            \* stored pixels overwritten so far, a set of <<row, col>>
    iterator,        \* the generator made by get_iterator: its state and position
    yielded,         \* the windows that generator has read and yielded, in order
    previous,        \* history: what the generator before this one had yielded
    ret,             \* what the last call returned or raised
    call             \* the arguments of a call that has been made and not yet run

vars == <<rows, cols, block_size, origem, pixel_size, write_enabled, access, proj,
          _block_list, _block_indices, data, iterator, yielded, previous, ret, call>>

(***************************************************************************)
(* Bounds of the model.                                                    *)
(***************************************************************************)
MaxRows == 3
MaxCols == 3
MaxBlock == 2
MaxWriteRows == 2
MaxWriteCols == 2
MaxCloneBlock == 4
Margin == 2
MaxOver == 1

\* Sample pixel sizes (0.5 and 1.0) and top-left corners, in half units.
PixelSizes == {1, 2}
Origins == {<<0, 0>>, <<-3, 5>>}

(***************************************************************************)
(* Python helpers.                                                         *)
(***************************************************************************)
\* int(a / b) for b > 0: true division, then truncation toward zero.
int_div(a, b) == IF a >= 0 THEN a \div b ELSE -((-a) \div b)

\* a & b on non-negative integers.
RECURSIVE bit_and(_, _)
bit_and(a, b) ==
    IF a = 0 \/ b = 0 THEN 0
    ELSE (a % 2) * (b % 2) + 2 * bit_and(a \div 2, b \div 2)

\* list[index]: an index in -len..-1 counts from the end, any other index
\* outside 0..len-1 raises IndexError.
list_getitem(list, index) ==
    IF index >= 0 /\ index < Len(list) THEN [status |-> "ok", value |-> list[index + 1]]
    ELSE IF index < 0 /\ index >= -Len(list)
         THEN [status |-> "ok", value |-> list[Len(list) + index + 1]]
         ELSE [status |-> "IndexError"]

(***************************************************************************)
(* _create_blocks_list: the windows <<xoff, yoff, valid_x, valid_y>>.      *)
(***************************************************************************)
\* Every block given the nominal size, the last one too.
valid_extent_nominal(extent, blk, index, n_blocks) == blk

\* The size of block `index` along one axis: the last one is recalculated.
valid_extent(extent, blk, index, n_blocks) ==
    IF index = n_blocks - 1 THEN extent - index * blk ELSE blk

\* The inner loop: for block_row in range(0, y_blocks).
RECURSIVE rows_loop(_, _, _, _, _, _, _)
rows_loop(block_row, y_blocks, xoff, valid_x, n_rows, blk_height, blocks_list) ==
    IF block_row >= y_blocks THEN blocks_list
    ELSE rows_loop(block_row + 1, y_blocks, xoff, valid_x, n_rows, blk_height,
                   Append(blocks_list,
                          <<xoff, block_row * blk_height, valid_x,
                            valid_extent(n_rows, blk_height, block_row, y_blocks)>>))

\* The outer loop: for block_column in range(0, x_blocks).
RECURSIVE columns_loop(_, _, _, _, _, _, _)
columns_loop(block_column, x_blocks, y_blocks, n_rows, n_cols, blk, blocks_list) ==
    IF block_column >= x_blocks THEN blocks_list
    ELSE columns_loop(block_column + 1, x_blocks, y_blocks, n_rows, n_cols, blk,
                      rows_loop(0, y_blocks, block_column * blk[1],
                                valid_extent(n_cols, blk[1], block_column, x_blocks),
                                n_rows, blk[2], blocks_list))

\* The loops nested the other way round: a row-major enumeration.
RECURSIVE columns_inner(_, _, _, _, _, _, _)
columns_inner(block_column, x_blocks, yoff, valid_y, n_cols, blk_width, blocks_list) ==
    IF block_column >= x_blocks THEN blocks_list
    ELSE columns_inner(block_column + 1, x_blocks, yoff, valid_y, n_cols, blk_width,
                       Append(blocks_list,
                              <<block_column * blk_width, yoff,
                                valid_extent(n_cols, blk_width, block_column, x_blocks),
                                valid_y>>))

RECURSIVE rows_outer(_, _, _, _, _, _, _)
rows_outer(block_row, x_blocks, y_blocks, n_rows, n_cols, blk, blocks_list) ==
    IF block_row >= y_blocks THEN blocks_list
    ELSE rows_outer(block_row + 1, x_blocks, y_blocks, n_rows, n_cols, blk,
                    columns_inner(0, x_blocks, block_row * blk[2],
                                  valid_extent(n_rows, blk[2], block_row, y_blocks),
                                  n_cols, blk[1], blocks_list))

blocks_loops_row_major(x_blocks, y_blocks, n_rows, n_cols, blk) ==
    rows_outer(0, x_blocks, y_blocks, n_rows, n_cols, blk, <<>>)

blocks_loops(x_blocks, y_blocks, n_rows, n_cols, blk) ==
    columns_loop(0, x_blocks, y_blocks, n_rows, n_cols, blk, <<>>)

_create_blocks_list ==
    LET blk_width == block_size[1]
        blk_height == block_size[2]
        x_blocks == int_div(cols + blk_width - 1, blk_width)
        y_blocks == int_div(rows + blk_height - 1, blk_height)
    IN  blocks_loops(x_blocks, y_blocks, rows, cols, block_size)

\* The property block_list: computed on first use, then kept.
block_list == IF _block_list = <<>> THEN _create_blocks_list ELSE _block_list

(***************************************************************************)
(* Construction: __init__ and _load_metadata.  A path is opened GA_Update  *)
(* when write_enabled and GA_ReadOnly otherwise; a gdal.Dataset handed in  *)
(* keeps whatever access mode it was opened or created with.               *)
(***************************************************************************)
Constructed(RowSet, ColSet, BlockSet, OriginSet, PixelSet, WriteSet, SourceSet) ==
    /\ rows \in RowSet
    /\ cols \in ColSet
    /\ block_size \in BlockSet \X BlockSet
    /\ origem \in OriginSet
    /\ pixel_size \in PixelSet
    /\ write_enabled \in WriteSet
    /\ \E img_file \in SourceSet :
          \/ /\ img_file = "str"
             /\ access = IF write_enabled THEN "GA_Update" ELSE "GA_ReadOnly"
          \/ /\ img_file = "gdal.Dataset"
             /\ access \in {"GA_Update", "GA_ReadOnly"}
    /\ proj = "wkt_a"
    /\ _block_list = <<>>
    /\ _block_indices = <<>>
    /\ data = {}
    /\ iterator = [state |-> "none", pos |-> 0]
    /\ yielded = <<>>
    /\ previous = <<>>
    /\ ret = [op |-> "__init__"]

no_call == [op |-> "none"]

config_vars == <<rows, cols, block_size, origem, pixel_size, write_enabled, access, proj>>

(***************************************************************************)
(* get_iterator: a generator.  Its body starts at the first next(): it     *)
(* takes block_list, then reads and yields one window per step.            *)
(***************************************************************************)
get_iterator ==
    /\ iterator' = [state |-> "created", pos |-> 0]
    /\ yielded' = <<>>
    /\ previous' = yielded
    /\ ret' = [op |-> "get_iterator"]
    /\ UNCHANGED <<config_vars, call, _block_list, _block_indices, data>>

iterator_next ==
    /\ iterator.state \in {"created", "running"}
    /\ _block_list' = block_list
    /\ IF iterator.pos < Len(block_list)
       THEN /\ iterator' = [state |-> "running", pos |-> iterator.pos + 1]
            /\ yielded' = Append(yielded, block_list[iterator.pos + 1])
            /\ ret' = [op |-> "next", status |-> "ok",
                       window |-> block_list[iterator.pos + 1]]
       ELSE /\ iterator' = [state |-> "done", pos |-> iterator.pos]
            /\ yielded' = yielded
            /\ ret' = [op |-> "next", status |-> "StopIteration"]
    /\ UNCHANGED <<config_vars, call, previous, _block_indices, data>>

(***************************************************************************)
(* The storage collaborator's WriteArray(array, xoff, yoff): it refuses a  *)
(* dataset that is not open for update and an array reaching outside the   *)
(* raster; otherwise the pixels under the array are overwritten.           *)
(***************************************************************************)
window_pixels(xoff, yoff, xsize, ysize) ==
    {<<r, c>> \in (0..(rows - 1)) \X (0..(cols - 1)) :
        /\ xoff <= c /\ c < xoff + xsize
        /\ yoff <= r /\ r < yoff + ysize}

WriteArray_ok(xoff, yoff, xsize, ysize) ==
    /\ access = "GA_Update"
    /\ xoff >= 0 /\ yoff >= 0
    /\ xoff + xsize <= cols
    /\ yoff + ysize <= rows

\* The block indices a caller may pass: the valid ones and MaxOver beyond each end,
\* and the negative ones Python accepts.
block_index_inputs ==
    (-(Len(block_list) + MaxOver))..(Len(block_list) + MaxOver - 1)

(***************************************************************************)
(* write_block(data_array, block_index): data_array has the shape of the   *)
(* block's window, <<valid_y, valid_x>>.                                   *)
(***************************************************************************)
write_block ==
    \E block_index \in block_index_inputs :
        LET looked == list_getitem(block_list, block_index) IN
        /\ _block_list' = block_list
        /\ IF looked.status = "IndexError"
           THEN /\ ret' = [op |-> "write_block", index |-> block_index,
                           status |-> "IndexError"]
                /\ data' = data
           ELSE LET block_position == looked.value
                    written == WriteArray_ok(block_position[1], block_position[2],
                                             block_position[3], block_position[4])
                IN  /\ data' = IF written
                               THEN data \cup window_pixels(block_position[1],
                                                            block_position[2],
                                                            block_position[3],
                                                            block_position[4])
                               ELSE data
                    /\ ret' = [op |-> "write_block", index |-> block_index,
                               status |-> IF written THEN "ok" ELSE "CE_Failure",
                               xoff |-> block_position[1],
                               yoff |-> block_position[2]]
        /\ UNCHANGED <<config_vars, call, previous, _block_indices, iterator, yielded>>

\* write_all(data_array): the whole image written from the first position.
write_all ==
    /\ IF WriteArray_ok(0, 0, cols, rows)
       THEN /\ data' = data \cup window_pixels(0, 0, cols, rows)
            /\ ret' = [op |-> "write_all", status |-> "ok"]
       ELSE /\ data' = data
            /\ ret' = [op |-> "write_all", status |-> "CE_Failure"]
    /\ UNCHANGED <<config_vars, call, previous, _block_list, _block_indices, iterator, yielded>>

\* read_all: the whole data read; nothing changes.
read_all ==
    /\ ret' = [op |-> "read_all", pixels |-> data]
    /\ UNCHANGED <<config_vars, call, previous, _block_list, _block_indices, data, iterator, yielded>>

(***************************************************************************)
(* get_block_pixel_coordinates(block_index).  block_indices is             *)
(* np.indices(block_size): on axis 0 the first index, on axis 1 the second.*)
(***************************************************************************)
block_indices == IF _block_indices = <<>> THEN <<2, block_size[1], block_size[2]>>
                 ELSE _block_indices

get_block_pixel_coordinates ==
    \E block_index \in block_index_inputs :
        LET looked == list_getitem(block_list, block_index) IN
        /\ _block_list' = block_list
        /\ IF looked.status = "IndexError"
           THEN /\ ret' = [op |-> "get_block_pixel_coordinates",
                           index |-> block_index, status |-> "IndexError"]
                /\ _block_indices' = _block_indices
           ELSE LET block_position == looked.value IN
                /\ _block_indices' = block_indices
                /\ ret' = [op |-> "get_block_pixel_coordinates",
                           index |-> block_index, status |-> "ok",
                           window |-> block_position,
                           block_coords |->
                              [e \in {<<eixo, i, j>> \in
                                        (0..1) \X (0..(block_size[1] - 1))
                                               \X (0..(block_size[2] - 1)) : TRUE} |->
                                 (IF e[1] = 0 THEN e[2] ELSE e[3]) * pixel_size
                                 + origem[e[1] + 1]
                                 + block_position[e[1] + 1] * pixel_size]]
        /\ UNCHANGED <<config_vars, call, previous, data, iterator, yielded>>

(***************************************************************************)
(* clone_empty: the block size of the new image, and what is copied.       *)
(***************************************************************************)
DefaultBlockSize == 256

\* out_block_size[0]: block_size[0] != 0 and block_size[0] & (block_size[0] - 1) == 0
out_block_x(b) ==
    IF b # 0 /\ bit_and(b, b - 1) = 0 THEN b ELSE DefaultBlockSize

\* out_block_size[1]: block_size[1] != 1 and block_size[1] & (block_size[1] - 1) == 0
out_block_y(b) ==
    IF b # 1 /\ bit_and(b, b - 1) = 0 THEN b ELSE DefaultBlockSize

clone_empty ==
    /\ ret' = [op |-> "clone_empty",
               block_size |-> <<out_block_x(block_size[1]), out_block_y(block_size[2])>>,
               rows |-> rows, cols |-> cols, proj |-> proj,
               geotransform |-> <<origem[1], pixel_size, origem[2]>>,
               write_enabled |-> TRUE]
    /\ UNCHANGED <<config_vars, call, previous, _block_list, _block_indices, data, iterator, yielded>>

(***************************************************************************)
(* get_bbox and get_bbox_position_within_image.                            *)
(***************************************************************************)
get_bbox ==
    [xmin |-> origem[1],
     ymin |-> origem[2] - rows * pixel_size,
     xmax |-> origem[1] + cols * pixel_size,
     ymax |-> origem[2],
     wkt_srs |-> proj]

\* osr's IsSame: two WKT texts may describe the same reference system.
srs_system(wkt) == IF wkt = "wkt_a_alias" THEN "wkt_a" ELSE wkt

IsSame(this_wkt, other_wkt) == srs_system(this_wkt) = srs_system(other_wkt)

\* The four comparisons made strict: a shared edge passes.
out_of_bounds_strict(other_bbox, this_bbox) ==
    \/ other_bbox.xmax < this_bbox.xmin
    \/ other_bbox.xmin > this_bbox.xmax
    \/ other_bbox.ymax < this_bbox.ymin
    \/ other_bbox.ymin > this_bbox.ymax

\* Detect out of bounds: the if / elif chain sets one flag.
out_of_bounds(other_bbox, this_bbox) ==
    \/ other_bbox.xmax <= this_bbox.xmin
    \/ other_bbox.xmin >= this_bbox.xmax
    \/ other_bbox.ymax <= this_bbox.ymin
    \/ other_bbox.ymin >= this_bbox.ymax

\* The upper edges never clipped.
exceeds_above_never(v, bound) == FALSE

\* obb_ymax > this_bbox.ymax, obb_xmax > this_bbox.xmax
exceeds_above(v, bound) == v > bound

\* An edge lying on the image's edge taken for one beyond it.
exceeds_below_or_on(v, bound) == v <= bound

\* obb_ymin < this_bbox.ymin, obb_xmin < this_bbox.xmin
exceeds_below(v, bound) == v < bound

bbox_position(other_bbox, allow_partial, allow_any_srs) ==
    LET this_bbox == get_bbox
        top == exceeds_above(other_bbox.ymax, this_bbox.ymax)
        bottom == exceeds_below(other_bbox.ymin, this_bbox.ymin)
        right == exceeds_above(other_bbox.xmax, this_bbox.xmax)
        left == exceeds_below(other_bbox.xmin, this_bbox.xmin)
        obb_ymax == IF top THEN this_bbox.ymax ELSE other_bbox.ymax
        obb_ymin == IF bottom THEN this_bbox.ymin ELSE other_bbox.ymin
        obb_xmax == IF right THEN this_bbox.xmax ELSE other_bbox.xmax
        obb_xmin == IF left THEN this_bbox.xmin ELSE other_bbox.xmin
        patial == top \/ bottom \/ right \/ left
        displacement_h == IF left THEN 0
                          ELSE int_div(obb_xmin - this_bbox.xmin, pixel_size)
        displacement_v == IF top THEN 0
                          ELSE int_div(this_bbox.ymax - obb_ymax, pixel_size)
        origin_x == IF left THEN this_bbox.xmin
                    ELSE this_bbox.xmin + displacement_h * pixel_size
        origin_y == IF top THEN this_bbox.ymax
                    ELSE this_bbox.ymax - displacement_v * pixel_size
        block_width == int_div(obb_xmax - origin_x, pixel_size) - 1
        block_height == int_div(origin_y - obb_ymin, pixel_size)
    IN  IF ~IsSame(this_bbox.wkt_srs, other_bbox.wkt_srs) /\ ~allow_any_srs
        THEN [status |-> "Must be in the same SRS."]
        ELSE IF out_of_bounds(other_bbox, this_bbox)
        THEN [status |-> "Bbox totaly out of bounds."]
        ELSE IF patial /\ ~allow_partial
        THEN [status |-> "Other bbox partially out of the image extent"]
        ELSE [status |-> "ok",
              displacement_h |-> displacement_h, displacement_v |-> displacement_v,
              block_width |-> block_width, block_height |-> block_height,
              origin_x |-> origin_x, origin_y |-> origin_y]

\* The query boxes a caller may pass: xmin < xmax and ymin < ymax, from Margin
\* outside the image to Margin outside it on the other side, on the multiples of Step.
bbox_inputs(Step) ==
    LET xs == {x \in (get_bbox.xmin - Margin)..(get_bbox.xmax + Margin) : x % Step = 0}
        ys == {y \in (get_bbox.ymin - Margin)..(get_bbox.ymax + Margin) : y % Step = 0}
    IN  {[xmin |-> b[1], ymin |-> b[2], xmax |-> b[3], ymax |-> b[4], wkt_srs |-> w] :
            b \in {q \in xs \X ys \X xs \X ys : q[1] < q[3] /\ q[2] < q[4]},
            w \in {"wkt_a_alias", "wkt_b"}}

bbox_calls(Step) ==
    {[op |-> "get_bbox_position_within_image", other_bbox |-> other_bbox,
      allow_partial |-> allow_partial, allow_any_srs |-> allow_any_srs] :
        other_bbox \in bbox_inputs(Step), allow_partial \in BOOLEAN, allow_any_srs \in BOOLEAN}

get_bbox_position_within_image ==
    /\ call.op = "get_bbox_position_within_image"
    /\ ret' = [op |-> "get_bbox_position_within_image",
               other_bbox |-> call.other_bbox,
               allow_partial |-> call.allow_partial,
               allow_any_srs |-> call.allow_any_srs,
               result |-> bbox_position(call.other_bbox, call.allow_partial,
                                        call.allow_any_srs)]
    /\ call' = no_call
    /\ UNCHANGED <<config_vars, previous, _block_list, _block_indices, data, iterator, yielded>>

(***************************************************************************)
(* The bounding-box queries on small images of every shape, and on the     *)
(* image of 10 rows by 10 cols with pixel size 1.0 and origin (0.0, 10.0). *)
(***************************************************************************)
InitBBox ==
    /\ Constructed(1..MaxRows, 1..MaxCols, {DefaultBlockSize}, Origins, PixelSizes,
                   {FALSE}, {"str"})
    /\ call \in bbox_calls(1)

NextBBox == get_bbox_position_within_image

SpecBBox == InitBBox /\ [][NextBBox]_vars

InitScenario ==
    /\ Constructed({10}, {10}, {DefaultBlockSize}, {<<0, 20>>}, {2}, {FALSE}, {"str"})
    /\ call \in bbox_calls(5)

SpecScenario == InitScenario /\ [][NextBBox]_vars

(***************************************************************************)
(* The view RasterData(path) with the constructor's defaults (opened       *)
(* GA_ReadOnly): the block grid, its iteration and write_block's lookup.   *)
(***************************************************************************)
Init ==
    /\ Constructed(1..MaxRows, 1..MaxCols, 1..MaxBlock, {<<0, 0>>}, {1},
                   {FALSE}, {"str"})
    /\ call = no_call

Next ==
    \/ get_iterator
    \/ iterator_next
    \/ write_block

Spec == Init /\ [][Next]_vars

(***************************************************************************)
(* Views of every construction (a path with write_enabled or not, a        *)
(* dataset handed in with either access mode): reads, writes and lookups.  *)
(***************************************************************************)
InitWrite ==
    /\ Constructed(1..MaxWriteRows, 1..MaxWriteCols, 1..MaxBlock, {<<0, 0>>}, {1},
                   BOOLEAN, {"str", "gdal.Dataset"})
    /\ call = no_call

NextWrite ==
    \/ write_all
    \/ write_block
    \/ read_all
    \/ get_block_pixel_coordinates

SpecWrite == InitWrite /\ [][NextWrite]_vars

(***************************************************************************)
(* clone_empty on sources of every block size.                             *)
(***************************************************************************)
InitClone ==
    /\ Constructed(1..MaxRows, 1..MaxCols, 1..MaxCloneBlock, Origins, PixelSizes,
                   {FALSE}, {"str"})
    /\ call = no_call

NextClone == clone_empty

SpecClone == InitClone /\ [][NextClone]_vars

(***************************************************************************)
(* get_blocks_positions_coordinates: the array of [y0, y1, x0, x1] per     *)
(* block, of dtype uint16, indexed [row_index][col_index]; and             *)
(* get_blocks_array_indices over its first two dimensions.                 *)
(***************************************************************************)
Uint16Modulus == 65536

uint16(v) == v % Uint16Modulus

\* divmod(extent, blk) and one more block when pixels are left over.
n_blocks_along(extent, blk) ==
    (extent \div blk) + (IF extent % blk # 0 THEN 1 ELSE 0)

coord_array ==
    LET n_block_rows == n_blocks_along(rows, block_size[1])
        n_block_cols == n_blocks_along(cols, block_size[2])
    IN  [shape |-> <<n_block_rows, n_block_cols, 4>>,
         items |->
            [i \in (0..(n_block_rows - 1)) \X (0..(n_block_cols - 1)) |->
                LET row_index == i[1]
                    col_index == i[2]
                    y0 == row_index * block_size[1]
                    y1 == IF row_index + 1 = n_block_rows THEN rows
                          ELSE block_size[1] * (row_index + 1)
                    x0 == col_index * block_size[2]
                    x1 == IF col_index + 1 = n_block_cols THEN cols
                          ELSE block_size[2] * (col_index + 1)
                IN  <<uint16(y0), uint16(y1), uint16(x0), uint16(x1)>>]]

get_blocks_positions_coordinates ==
    /\ ret' = [op |-> "get_blocks_positions_coordinates", array |-> coord_array]
    /\ UNCHANGED <<config_vars, call, previous, _block_list, _block_indices, data,
                   iterator, yielded>>

\* The list [(irow, icol), ...], rows first.
get_blocks_array_indices ==
    /\ ret' = [op |-> "get_blocks_array_indices",
               indices |-> [k \in 1..(coord_array.shape[1] * coord_array.shape[2]) |->
                              <<(k - 1) \div coord_array.shape[2],
                                (k - 1) % coord_array.shape[2]>>]]
    /\ UNCHANGED <<config_vars, call, previous, _block_list, _block_indices, data,
                   iterator, yielded>>

(***************************************************************************)
(* The two block partitions of one view, for every block shape.            *)
(***************************************************************************)
InitPositions ==
    /\ Constructed(1..MaxRows, 1..MaxCols, 1..MaxBlock, Origins, PixelSizes,
                   {FALSE}, {"str"})
    /\ call = no_call

NextPositions ==
    \/ get_blocks_positions_coordinates
    \/ get_blocks_array_indices

SpecPositions == InitPositions /\ [][NextPositions]_vars

(***************************************************************************)
(* Properties of the block grid.                                           *)
(***************************************************************************)
\* The grid as the specification states it: ceil(extent / block extent) blocks per
\* axis, the last one clipped to the image, numbered column by column.
grid_rows == (rows + block_size[2] - 1) \div block_size[2]
grid_cols == (cols + block_size[1] - 1) \div block_size[1]
n_blocks == grid_rows * grid_cols

Min(a, b) == IF a <= b THEN a ELSE b

grid_window(block_row, block_col) ==
    <<block_col * block_size[1], block_row * block_size[2],
      Min(block_size[1], cols - block_col * block_size[1]),
      Min(block_size[2], rows - block_row * block_size[2])>>

ColumnMajor ==
    [k \in 1..n_blocks |-> grid_window((k - 1) % grid_rows, (k - 1) \div grid_rows)]

RECURSIVE sum_field(_, _, _, _, _)
\* The sum of field `what` over the windows of `list` whose field `key` is `value`.
sum_field(list, key, value, what, k) ==
    IF k > Len(list) THEN 0
    ELSE (IF list[k][key] = value THEN list[k][what] ELSE 0)
         + sum_field(list, key, value, what, k + 1)

in_window(win, r, c) ==
    /\ win[1] <= c /\ c < win[1] + win[3]
    /\ win[2] <= r /\ r < win[2] + win[4]

\* C1: the windows of block_list tile the image exactly: every pixel lies in exactly
\* one window, no window reaches outside the image, the widths of the windows of a
\* block row sum to cols and the heights of the windows of a block column to rows.
BlockListTilesImage ==
    _block_list # <<>> =>
        /\ \A r \in 0..(rows - 1), c \in 0..(cols - 1) :
              Cardinality({k \in 1..Len(_block_list) : in_window(_block_list[k], r, c)}) = 1
        /\ \A k \in 1..Len(_block_list) :
              /\ _block_list[k][1] >= 0 /\ _block_list[k][2] >= 0
              /\ _block_list[k][3] >= 1 /\ _block_list[k][4] >= 1
              /\ _block_list[k][1] + _block_list[k][3] <= cols
              /\ _block_list[k][2] + _block_list[k][4] <= rows
        /\ \A k \in 1..Len(_block_list) :
              /\ sum_field(_block_list, 2, _block_list[k][2], 3, 1) = cols
              /\ sum_field(_block_list, 1, _block_list[k][1], 4, 1) = rows

\* A computed block list of a grid of several block rows and columns whose last row
\* and last column are both ragged.
RaggedGridListed ==
    /\ _block_list # <<>>
    /\ Len(_block_list) >= 4
    /\ rows % block_size[2] # 0
    /\ cols % block_size[1] # 0

prefix_of(short, long) ==
    /\ Len(short) <= Len(long)
    /\ \A k \in 1..Len(short) : short[k] = long[k]

\* C8: blocks are enumerated column by column everywhere: block_list is the
\* column-major list of the grid, get_iterator yields one window per entry of it in
\* that order and then ends, a generator made by a new get_iterator yields the same
\* windows as the one before it, and write_block(data, i) hands the storage the
\* offset of the i-th window the iterator reads.
BlocksInColumnMajorOrder ==
    /\ _block_list # <<>> => _block_list = ColumnMajor
    /\ prefix_of(yielded, ColumnMajor)
    /\ iterator.state = "done" => yielded = ColumnMajor
    /\ (iterator.state = "running" /\ ret.op = "next") =>
          ret.window = yielded[Len(yielded)]
    /\ prefix_of(yielded, previous) \/ prefix_of(previous, yielded)
    /\ (ret.op = "write_block" /\ ret.index \in 0..(n_blocks - 1)) =>
          /\ ret.status # "IndexError"
          /\ <<ret.xoff, ret.yoff>> = <<ColumnMajor[ret.index + 1][1],
                                        ColumnMajor[ret.index + 1][2]>>
          /\ Len(yielded) > ret.index =>
                <<ret.xoff, ret.yoff>> = <<yielded[ret.index + 1][1],
                                           yielded[ret.index + 1][2]>>

\* A second generator has run to its end over a grid of two block rows and two
\* block columns at least, the one before it had too, and write_block has just
\* looked up the last block column's first block.
IteratedTwiceThenWritten ==
    /\ iterator.state = "done"
    /\ grid_rows >= 2 /\ grid_cols >= 2
    /\ Len(yielded) = n_blocks
    /\ previous = yielded
    /\ ret.op = "write_block"
    /\ ret.index = n_blocks - grid_rows
    /\ ret.xoff > 0 /\ ret.yoff = 0

(***************************************************************************)
(* Properties of the lookups by block index and of the writes.             *)
(***************************************************************************)
\* C9: a lookup of a block window by index (write_block,
\* get_block_pixel_coordinates) raises IndexError for every index outside
\* 0..n_blocks-1, negative ones included, so that nothing is written, and gives the
\* grid cell's window for every index inside.
IndexOutsideGridRaises ==
    ret.op \in {"write_block", "get_block_pixel_coordinates"} =>
        IF ret.index \in 0..(n_blocks - 1)
        THEN /\ ret.status # "IndexError"
             /\ ret.op = "get_block_pixel_coordinates" =>
                   ret.window = ColumnMajor[ret.index + 1]
             /\ ret.op = "write_block" =>
                   <<ret.xoff, ret.yoff>> = <<ColumnMajor[ret.index + 1][1],
                                              ColumnMajor[ret.index + 1][2]>>
        ELSE ret.status = "IndexError"

\* C7: on a view constructed with write_enabled = False no write_block and no
\* write_all succeeds, and the stored pixels stay as they were.
ReadOnlyViewRefusesWrites ==
    write_enabled = FALSE =>
        /\ data = {}
        /\ ret.op \in {"write_block", "write_all"} => ret.status # "ok"

(***************************************************************************)
(* Properties of clone_empty.                                              *)
(***************************************************************************)
is_power_of_two(n) == \E k \in 0..n : 2 ^ k = n

\* C10: clone_empty gives the new image the source's block size on each axis where
\* it is a power of two and 256 elsewhere, and the source's rows, cols, projection
\* and geotransform.
CloneKeepsPowerOfTwoBlockSize ==
    ret.op = "clone_empty" =>
        /\ \A axis \in 1..2 :
              ret.block_size[axis] = IF is_power_of_two(block_size[axis])
                                     THEN block_size[axis] ELSE 256
        /\ ret.rows = rows /\ ret.cols = cols
        /\ ret.proj = proj
        /\ ret.geotransform = <<origem[1], pixel_size, origem[2]>>

(***************************************************************************)
(* Properties of get_bbox_position_within_image.                           *)
(***************************************************************************)
bbox_returned == ret.op = "get_bbox_position_within_image"

same_srs_query == bbox_returned /\ srs_system(ret.other_bbox.wkt_srs) = srs_system(proj)

\* The image's box as the specification states it.
image_xmin == origem[1]
image_xmax == origem[1] + cols * pixel_size
image_ymin == origem[2] - rows * pixel_size
image_ymax == origem[2]

\* The two boxes share more than an edge.
intersects_image(box) ==
    /\ box.xmin < image_xmax /\ box.xmax > image_xmin
    /\ box.ymin < image_ymax /\ box.ymax > image_ymin

inside_image(box) ==
    /\ box.xmin >= image_xmin /\ box.xmax <= image_xmax
    /\ box.ymin >= image_ymin /\ box.ymax <= image_ymax

\* C2: a query box identical to the image's own box, in the image's reference
\* system, resolves to offset (0, 0), width cols and height rows.
OwnBoxResolvesToWholeImage ==
    (/\ same_srs_query
     /\ ret.other_bbox.xmin = image_xmin /\ ret.other_bbox.xmax = image_xmax
     /\ ret.other_bbox.ymin = image_ymin /\ ret.other_bbox.ymax = image_ymax) =>
        /\ ret.result.status = "ok"
        /\ ret.result.displacement_h = 0
        /\ ret.result.displacement_v = 0
        /\ ret.result.block_width = cols
        /\ ret.result.block_height = rows

\* C3: a returned window stays inside the image: both offsets are at least 0, the
\* horizontal offset plus the width is at most cols and the vertical offset plus the
\* height at most rows.
WindowInsideImage ==
    (bbox_returned /\ ret.result.status = "ok") =>
        /\ ret.result.displacement_h >= 0
        /\ ret.result.displacement_v >= 0
        /\ ret.result.displacement_h + ret.result.block_width <= cols
        /\ ret.result.displacement_v + ret.result.block_height <= rows

\* A window returned for a box that starts inside the image and leaves it on the
\* right and at the bottom, reaching the last row.
ClippedWindowReturned ==
    /\ bbox_returned
    /\ ret.result.status = "ok"
    /\ ret.other_bbox.xmax > image_xmax
    /\ ret.other_bbox.ymin < image_ymin
    /\ ret.result.displacement_h > 0
    /\ ret.result.displacement_v > 0
    /\ ret.result.displacement_v + ret.result.block_height = rows

\* C4: for a query box in the image's reference system the out-of-bounds error is
\* raised exactly when the box does not intersect the image box, a shared edge
\* counting as no intersection, whatever allow_partial is.
OutOfBoundsIffNoIntersection ==
    same_srs_query =>
        (ret.result.status = "Bbox totaly out of bounds."
            <=> ~intersects_image(ret.other_bbox))

\* The out-of-bounds error raised, with allow_partial set, for a box whose left edge
\* is the image's right edge.
EdgeSharingBoxRejected ==
    /\ same_srs_query
    /\ ret.allow_partial
    /\ ret.other_bbox.xmin = image_xmax
    /\ ret.other_bbox.ymin >= image_ymin /\ ret.other_bbox.ymax <= image_ymax
    /\ ret.result.status = "Bbox totaly out of bounds."

\* C5: a query box that intersects the image and exceeds it on some side raises the
\* partial-coverage error without allow_partial; with allow_partial a window is
\* returned whose horizontal offset is 0 when the left edge was clipped and whose
\* vertical offset is 0 when the top edge was clipped.  A box inside the image never
\* raises the partial-coverage error.
PartialCoveragePolicy ==
    (same_srs_query /\ intersects_image(ret.other_bbox)) =>
        IF inside_image(ret.other_bbox)
        THEN ret.result.status # "Other bbox partially out of the image extent"
        ELSE IF ret.allow_partial
             THEN /\ ret.result.status = "ok"
                  /\ ret.other_bbox.xmin < image_xmin => ret.result.displacement_h = 0
                  /\ ret.other_bbox.ymax > image_ymax => ret.result.displacement_v = 0
             ELSE ret.result.status = "Other bbox partially out of the image extent"

\* A window returned, with allow_partial set, for a box that passes the image's
\* top-left corner and ends inside the image.
TopLeftClippedWindow ==
    /\ same_srs_query
    /\ ret.allow_partial
    /\ ret.other_bbox.xmin < image_xmin /\ ret.other_bbox.ymax > image_ymax
    /\ ret.other_bbox.xmax < image_xmax /\ ret.other_bbox.ymin > image_ymin
    /\ ret.result.status = "ok"
    /\ ret.result.displacement_h = 0 /\ ret.result.displacement_v = 0

\* C6: on the image of 10 rows by 10 cols with pixel size 1.0 and origin (0.0, 10.0)
\* the box (2.5, 2.5, 7.5, 7.5) resolves to offset (2, 2), width 4 and height 4.
ScenarioWindow ==
    (/\ same_srs_query
     /\ rows = 10 /\ cols = 10 /\ pixel_size = 2 /\ origem = <<0, 20>>
     /\ ret.other_bbox.xmin = 5 /\ ret.other_bbox.ymin = 5
     /\ ret.other_bbox.xmax = 15 /\ ret.other_bbox.ymax = 15) =>
        /\ ret.result.status = "ok"
        /\ ret.result.displacement_h = 2
        /\ ret.result.displacement_v = 2
        /\ ret.result.block_width = 4
        /\ ret.result.block_height = 4

\* C11: the width and the height of a returned window are both at least 0, so that
\* the window is a size a storage read accepts.
WindowSizeNonNegative ==
    (bbox_returned /\ ret.result.status = "ok") =>
        /\ ret.result.block_width >= 0
        /\ ret.result.block_height >= 0

(***************************************************************************)
(* Properties of get_blocks_positions_coordinates.                         *)
(***************************************************************************)
range_of(f) == {f[x] : x \in DOMAIN f}

\* C12: the pixel rectangles of get_blocks_positions_coordinates, entries
\* [y0, y1, x0, x1], are the rectangles of block_list, entries
\* (xoff, yoff, width, height), for every image and block size, non-square blocks
\* included, and both have the same number of block rows and of block columns.
PartitionsAgree ==
    ret.op = "get_blocks_positions_coordinates" =>
        /\ {<<e[3], e[4], e[1], e[2]>> : e \in range_of(ret.array.items)}
             = {<<w[1], w[1] + w[3], w[2], w[2] + w[4]>> : w \in range_of(block_list)}
        /\ ret.array.shape[1] = Cardinality({w[2] : w \in range_of(block_list)})
        /\ ret.array.shape[2] = Cardinality({w[1] : w \in range_of(block_list)})

====
